---- MODULE Spec2Model ----
(***************************************************************************)
(* Duplicate detection of topic-shuffler-ai: the lazily initialised        *)
(* embedding pipeline, the batch scan findDuplicates, the corpus checks    *)
(* checkProjectForDuplicates and quickDuplicateCheck                       *)
(* (src/lib/duplicateDetection.ts), and the interactive checker of         *)
(* ProjectSubmissionForm; handleAnalyze of DuplicateDetector and the        *)
(* upload list of FileUpload.                                              *)
(*                                                                         *)
(* Every asynchronous invocation is a thread: a record th[k] holding the   *)
(* invocation's locals and the await it is suspended at.  One action is    *)
(* the code that runs between two awaits.  The embedding model and the     *)
(* store are external: what they answer is chosen nondeterministically.    *)
(* The pure functions cosineSimilarity and quickSimilarityCheck are        *)
(* operators; SpecCosine and SpecLexical call them on bounded inputs.      *)
(***************************************************************************)
EXTENDS Integers, Sequences, FiniteSets, TLC

\* ------------------------------------------------------------------ bounds
MaxThreads == 3   \* concurrent callers of the embedding provider
MaxScans == 1     \* DuplicateDetector components scanning at once
MaxPapers == 3    \* papers handed to one findDuplicates call

MaxCorpusCalls == 1  \* callers of the corpus checks at once
MaxChecks == 2    \* checkDuplicates invocations of one form
MaxSubmitChecks == 1  \* the same, of a form whose submit button is used
MaxDim == 2       \* components of a vector handed to cosineSimilarity
MaxTextLen == 3   \* characters of a text handed to quickSimilarityCheck
MaxLivePapers == 2      \* papers of an analysis beside the form's checker
MaxFiles == 2     \* files dropped on one FileUpload

Threads == 1..MaxThreads
ScanThreads == 1..MaxScans
CorpusThreads == 1..MaxCorpusCalls
CheckThreads == 1..MaxChecks
SubmitCheckThreads == 1..MaxSubmitChecks

\* ------------------------------------------------------------- similarity
\* A similarity is the number n / sqrt(d2); d2 = 0 is NaN.  Cosine similarity
\* is dot / sqrt(|a|^2 * |b|^2) and a Jaccard index inter / union is
\* inter / sqrt(union^2), so both compare exactly in integer arithmetic.
NaN == [n |-> 0, d2 |-> 0]

Sgn(x) == IF x > 0 THEN 1 ELSE IF x < 0 THEN -1 ELSE 0

\* s >= pct / 100, as the IEEE comparison: false on NaN.
GE(s, pct) == s.d2 > 0 /\ s.n >= 0 /\ s.n * s.n * 10000 >= pct * pct * s.d2

\* s > pct / 100.
GT(s, pct) == s.d2 > 0 /\ s.n >= 0 /\ s.n * s.n * 10000 > pct * pct * s.d2

\* s < t for two numbers (neither NaN).
SimLess(s, t) == Sgn(s.n) * s.n * s.n * t.d2 < Sgn(t.n) * t.n * t.n * s.d2

\* The thresholds findDuplicates is called with, in hundredths: its default
\* (the one DuplicateDetector passes) and two lower ones, 0.8 being a
\* similarity that two of the vectors below have exactly.
ScanThresholds == {75, 80, 85}

\* The embedding vectors the external model may answer with.
Vecs == {<<2, 1>>, <<1, 2>>, <<1, 0>>}

RECURSIVE SumTo(_, _)
SumTo(f, n) == IF n = 0 THEN 0 ELSE f[n] + SumTo(f, n - 1)

cosineSimilarity(a, b) ==
  IF Len(a) > Len(b) THEN NaN   \* b[i] is undefined: the sum is NaN
  ELSE LET dotProduct == SumTo([i \in 1..Len(a) |-> a[i] * b[i]], Len(a))
           magnitudeA2 == SumTo([i \in 1..Len(a) |-> a[i] * a[i]], Len(a))
           magnitudeB2 == SumTo([i \in 1..Len(b) |-> b[i] * b[i]], Len(b))
       IN  [n |-> dotProduct, d2 |-> magnitudeA2 * magnitudeB2]

\* Array.prototype.sort((a, b) => b.similarity - a.similarity): a stable
\* sort, similarity descending.
RECURSIVE InsertDescUnstable(_, _)
InsertDescUnstable(sorted, d) ==
  IF sorted = <<>> THEN <<d>>
  ELSE IF ~SimLess(d.similarity, Head(sorted).similarity)
       THEN <<d>> \o sorted
       ELSE <<Head(sorted)>> \o InsertDescUnstable(Tail(sorted), d)

RECURSIVE InsertDesc(_, _)
InsertDesc(sorted, d) ==
  IF sorted = <<>> THEN <<d>>
  ELSE IF SimLess(Head(sorted).similarity, d.similarity)
       THEN <<d>> \o sorted
       ELSE <<Head(sorted)>> \o InsertDesc(Tail(sorted), d)

RECURSIVE SortDesc(_)
SortDesc(s) ==
  IF s = <<>> THEN <<>>
  ELSE InsertDesc(SortDesc(SubSeq(s, 1, Len(s) - 1)), s[Len(s)])

\* ------------------------------------------------------------------- text
\* A string is a sequence of characters; JsNull is the value null, which a
\* template literal prints as "null".
JsNull == <<"null">>

Or(x) == IF x = JsNull \/ x = <<>> THEN <<>> ELSE x   \* x || ''

Template(x) == IF x = JsNull THEN <<"n", "u", "l", "l">> ELSE x

Letters ==
  <<"a", "b", "c", "d", "e", "f", "g", "h", "i", "j", "k", "l", "m",
    "n", "o", "p", "q", "r", "s", "t", "u", "v", "w", "x", "y", "z">>

Range(f) == {f[x] : x \in DOMAIN f}

IsSpace(c) == c = " "

IsWordChar(c) == c \in Range(Letters) \cup {"A", "B", "0", "1", "_"}

toLowerCase(str) ==
  [x \in 1..Len(str) |->
     CASE str[x] = "A" -> "a" [] str[x] = "B" -> "b" [] OTHER -> str[x]]

\* The positions of str that hold no whitespace.
Inked(str) == {x \in 1..Len(str) : ~IsSpace(str[x])}

Least(S) == CHOOSE x \in S : \A y \in S : x <= y
Greatest(S) == CHOOSE x \in S : \A y \in S : y <= x

\* The x-th element of a set of numbers, ascending.
Nth(S, x) == CHOOSE e \in S : Cardinality({y \in S : y < e}) = x - 1

trim(str) ==
  IF Inked(str) = {} THEN <<>>
  ELSE SubSeq(str, Least(Inked(str)), Greatest(Inked(str)))

\* str.toLowerCase().replace(/[^\w\s]/g, '').trim()
normalize(str) ==
  trim(SelectSeq(toLowerCase(str), LAMBDA c : IsWordChar(c) \/ IsSpace(c)))

\* str.split(/\s+/): the pieces between the maximal runs of whitespace, an
\* empty piece before a leading run and after a trailing one.
split(str) ==
  LET runStarts == {x \in 1..Len(str) :
                      IsSpace(str[x]) /\ (IF x = 1 THEN TRUE ELSE ~IsSpace(str[x - 1]))}
      runEnds == {x \in 1..Len(str) :
                    IsSpace(str[x]) /\ (IF x = Len(str) THEN TRUE ELSE ~IsSpace(str[x + 1]))}
      runs == Cardinality(runStarts)
  IN  [p \in 1..(runs + 1) |->
         SubSeq(str,
                IF p = 1 THEN 1 ELSE Nth(runEnds, p - 1) + 1,
                IF p = runs + 1 THEN Len(str) ELSE Nth(runStarts, p) - 1)]

quickSimilarityCheckCounted(text1, text2) ==
  LET normalized1 == normalize(text1)
      normalized2 == normalize(text2)
      words1 == Range(split(normalized1))
      words2 == Range(split(normalized2))
      intersection == words1 \cap words2
      total == Len(split(normalized1)) + Len(split(normalized2))
                 - Cardinality(intersection)
  IN  IF normalized1 = normalized2 THEN [n |-> 1, d2 |-> 1]
      ELSE [n |-> Cardinality(intersection), d2 |-> total * total]

quickSimilarityCheckContained(text1, text2) ==
  LET normalized1 == normalize(text1)
      normalized2 == normalize(text2)
      words1 == Range(split(normalized1))
      words2 == Range(split(normalized2))
      intersection == words1 \cap words2
  IN  IF normalized1 = normalized2 THEN [n |-> 1, d2 |-> 1]
      ELSE [n |-> Cardinality(intersection),
            d2 |-> Cardinality(words1) * Cardinality(words1)]

quickSimilarityCheck(text1, text2) ==
  LET normalized1 == normalize(text1)
      normalized2 == normalize(text2)
      words1 == Range(split(normalized1))
      words2 == Range(split(normalized2))
      intersection == words1 \cap words2
      union == words1 \cup words2
  IN  IF normalized1 = normalized2 THEN [n |-> 1, d2 |-> 1]
      ELSE [n |-> Cardinality(intersection),
            d2 |-> Cardinality(union) * Cardinality(union)]

\* `${title} ${abstract}`.trim() of the fields, null and '' read as ''.
extractTextFromProject(project) ==
  trim(Or(project.title) \o <<" ">> \o Or(project.abstract))

\* Math.max of two numbers.
SimMax(s, t) == IF SimLess(s, t) THEN t ELSE s

\* ------------------------------------------------------------------ state
VARIABLES
  embeddingPipeline,       \* the module's cached model: Null, or the instance
  constructed,             \* how many pipeline() constructions have succeeded
  projects,                \* the rows of the store's projects table
  th,                      \* the asynchronous invocations
  form,                    \* the form's title and abstract values
  checkTimeoutRef,         \* the ref's timer id and the timers still pending
  duplicates,              \* React state of ProjectSubmissionForm
  isDuplicateChecking,
  duplicateCheckCompleted,
  submit,                  \* isSubmitting and the insert in flight
  userProfile,             \* whether fetchInitialData has set the profile
  duplicatesBy,            \* the check that wrote duplicates last
  detector,                \* React state of DuplicateDetector
  uploadingFiles,          \* React state of FileUpload: the list shown
  uploads                  \* the onDrop invocations, by file

embedVars == <<embeddingPipeline, constructed>>
uploadVars == <<uploadingFiles, uploads>>
checkVars ==
  <<duplicates, isDuplicateChecking, duplicateCheckCompleted, duplicatesBy,
    detector, uploadVars>>
formVars == <<form, checkTimeoutRef, submit, userProfile>>
vars == <<embedVars, projects, th, checkVars, formVars>>

Null == 0

\* The setState calls one step makes, in order, per setter.
NoSets ==
  [duplicates |-> <<>>, checking |-> <<>>, completed |-> <<>>,
   analyzing |-> <<>>, progress |-> <<>>, found |-> <<>>]

NoThread ==
  [kind |-> "none", pc |-> "idle", emb |-> "none", outcome |-> "none",
   ret |-> <<>>, papers |-> <<>>, threshold |-> 0, i |-> 0,
   embeddings |-> <<>>, duplicates |-> <<>>, progress |-> <<>>,
   embedCalls |-> 0,
   title |-> <<>>, abstract |-> <<>>, excludeProjectId |-> Null,
   error |-> FALSE, existingProjects |-> <<>>, newProjectEmbedding |-> <<>>,
   embedFailed |-> FALSE, quickResults |-> <<>>, aiCalled |-> FALSE,
   aiResults |-> <<>>, published |-> <<>>,
   a |-> <<>>, b |-> <<>>, text1 |-> <<>>, text2 |-> <<>>,
   flag |-> <<>>, sets |-> NoSets]

\* checked: whether, when the insert was issued, a check of the submitted
\* title and abstract had settled without a blocking match.
NoSubmit ==
  [pc |-> "idle", isSubmitting |-> FALSE, data |-> <<>>, checked |-> FALSE]

\* useRef(): no timer id yet; no timer is pending.
NoTimer == [current |-> Null, timers |-> {}]

\* useState(false), useState(0), useState([]); progress is the fraction
\* (current / total) * 100 as numerator and denominator.
NoDetector == [isAnalyzing |-> FALSE, progress |-> <<0, 1>>, duplicates |-> <<>>]

InitForm ==
  /\ form = [title |-> <<>>, abstract |-> <<>>]
  /\ detector = NoDetector
  /\ uploadingFiles = <<>>
  /\ uploads = <<>>
  /\ checkTimeoutRef = NoTimer
  /\ duplicates = <<>>
  /\ isDuplicateChecking = FALSE
  /\ duplicateCheckCompleted = FALSE
  /\ submit = NoSubmit
  /\ userProfile = FALSE
  /\ duplicatesBy = 0

InitEmbed ==
  /\ embeddingPipeline = Null
  /\ constructed = 0
  /\ th = [k \in Threads |-> NoThread]

Init ==
  /\ InitEmbed
  /\ InitForm
  /\ projects = <<>>

\* A check of a form that has navigated away is followed no further: the
\* setState calls of an unmounted component do nothing.
Running(k) == th[k].kind = "check" => submit.pc # "navigated"

\* Threads are taken in order: k is the next one not yet used.
Idle(k) == th[k].kind = "none" /\ (IF k = 1 THEN TRUE ELSE th[k - 1].kind # "none")

\* The last value a setter was called with in a step, or the state as it was.
LastOr(calls, old) == IF calls = <<>> THEN old ELSE calls[Len(calls)]

\* Thread k moves to the record t; the setState calls of the step apply.
\* flag: what the invocation last set its busy flag to, isDuplicateChecking
\* or isAnalyzing, if it has set it.
Step(k, t) ==
  /\ th' = [th EXCEPT ![k] =
              [t EXCEPT !.sets = NoSets,
                        !.flag = LET calls == t.sets.checking \o t.sets.analyzing
                                 IN  IF calls = <<>> THEN @
                                     ELSE <<calls[Len(calls)]>>]]
  /\ detector' = [isAnalyzing |-> LastOr(t.sets.analyzing, detector.isAnalyzing),
                  progress |-> LastOr(t.sets.progress, detector.progress),
                  duplicates |-> LastOr(t.sets.found, detector.duplicates)]
  /\ UNCHANGED uploadVars
  /\ duplicates' = LastOr(t.sets.duplicates, duplicates)
  /\ duplicatesBy' = IF t.sets.duplicates = <<>> THEN duplicatesBy ELSE k
  /\ isDuplicateChecking' = LastOr(t.sets.checking, isDuplicateChecking)
  /\ duplicateCheckCompleted' = LastOr(t.sets.completed, duplicateCheckCompleted)

\* The record of a thread that resumes: no setState call made yet.
Resume(t) == [t EXCEPT !.emb = "none", !.sets = NoSets]

\* The invocation returned value.
Done(t, value) ==
  [t EXCEPT !.pc = "done", !.emb = "none", !.outcome = "returned",
            !.ret = value]

\* ------------------------------------------------------ initializeEmbeddings
\* Where a call of initializeEmbeddings suspends first: nowhere when the
\* model is cached, else at the await of pipeline(..., {device: 'webgpu'}).
EnterInit == IF embeddingPipeline # Null THEN "run" ELSE "gpu"

\* The thread's record once it has called generateEmbedding(text).
CallGenerateEmbedding(t) ==
  [t EXCEPT !.emb = EnterInit, !.embedCalls = @ + 1]

\* A direct call of initializeEmbeddings().
InitCall(k) ==
  /\ Idle(k)
  /\ Step(k, IF embeddingPipeline # Null
             THEN Done([NoThread EXCEPT !.kind = "init"], embeddingPipeline)
             ELSE [NoThread EXCEPT !.kind = "init", !.pc = "init",
                                   !.emb = "gpu"])
  /\ UNCHANGED <<embedVars, projects, formVars>>

\* A direct call of generateEmbedding(text).
EmbedCall(k) ==
  /\ Idle(k)
  /\ Step(k, CallGenerateEmbedding(
               [NoThread EXCEPT !.kind = "embed", !.pc = "embedding"]))
  /\ UNCHANGED <<embedVars, projects, formVars>>

\* The thread after initializeEmbeddings returned the model to it.
AfterInit(t, model) ==
  IF t.kind = "init" THEN Done(t, model) ELSE [t EXCEPT !.emb = "run"]

\* pipeline() resolved, on the webgpu attempt or on the default one.
PipelineResolve(k) ==
  /\ th[k].emb \in {"gpu", "cpu"}
  /\ embeddingPipeline' = constructed + 1
  /\ constructed' = constructed + 1
  /\ Step(k, AfterInit([th[k] EXCEPT !.sets = NoSets], constructed + 1))
  /\ UNCHANGED <<projects, formVars>>

\* The webgpu attempt threw: the catch block starts the default attempt.
GpuReject(k) ==
  /\ th[k].emb = "gpu"
  /\ Step(k, [th[k] EXCEPT !.emb = "cpu", !.sets = NoSets])
  /\ UNCHANGED <<embedVars, projects, formVars>>

\* ------------------------------------------------------------ findDuplicates
\* The comparison phase: all pairs i < j in order, each with its progress
\* report; the pairs at or above the threshold, in pair order.
Pairs(n) == {p \in (0..n - 1) \X (0..n - 1) : p[1] < p[2]}

PairIndex(n, p) == Cardinality({q \in Pairs(n) :
                      q[1] < p[1] \/ (q[1] = p[1] /\ q[2] < p[2])}) + 1

PairSeq(n) ==
  [x \in 1..Cardinality(Pairs(n)) |->
     CHOOSE p \in Pairs(n) : PairIndex(n, p) = x]

RECURSIVE KeepPairsStrict(_, _, _)
KeepPairsStrict(ps, embeddings, threshold) ==
  IF ps = <<>> THEN <<>>
  ELSE LET i == Head(ps)[1]
           j == Head(ps)[2]
           similarity == cosineSimilarity(embeddings[i + 1], embeddings[j + 1])
           rest == KeepPairsStrict(Tail(ps), embeddings, threshold)
       IN  IF GT(similarity, threshold)
           THEN <<[paper1 |-> i, paper2 |-> j, similarity |-> similarity]>>
                  \o rest
           ELSE rest

RECURSIVE KeepPairs(_, _, _)
KeepPairs(ps, embeddings, threshold) ==
  IF ps = <<>> THEN <<>>
  ELSE LET i == Head(ps)[1]
           j == Head(ps)[2]
           similarity == cosineSimilarity(embeddings[i + 1], embeddings[j + 1])
           rest == KeepPairs(Tail(ps), embeddings, threshold)
       IN  IF GE(similarity, threshold)
           THEN <<[paper1 |-> i, paper2 |-> j, similarity |-> similarity]>>
                  \o rest
           ELSE rest

\* onProgress?.(papers.length + (i * papers.length + j), papers.length * 2)
CompareProgress(n, p) == <<n + (p[1] * n + p[2]), n * 2>>

\* onProgress?.(i + 1, papers.length * 2)
EmbedProgress(n, i) == <<i + 1, n * 2>>

\* handleAnalyze's callback: setProgress((current / total) * 100).
Percent(p) == <<p[1] * 100, p[2]>>

\* onProgress?.(current, total) for each report of ps in turn; handleAnalyze
\* passes its callback.
OnProgress(t, ps) ==
  [t EXCEPT !.progress = @ \o ps,
            !.sets.progress =
              IF t.kind = "analyze"
              THEN @ \o [x \in DOMAIN ps |-> Percent(ps[x])]
              ELSE @]

\* handleAnalyze once findDuplicates resolved: setDuplicates,
\* onDuplicatesFound, and the finally block.
AnalyzeAfterScan(t, foundDuplicates) ==
  Done([t EXCEPT !.sets.found = Append(@, foundDuplicates),
                 !.published = foundDuplicates,
                 !.sets.analyzing = Append(@, FALSE)],
       <<>>)

AnalyzeCatchNoFinally(t) ==
  [t EXCEPT !.pc = "done", !.emb = "none", !.outcome = "threw",
            !.embedFailed = TRUE]

\* handleAnalyze once findDuplicates rejected: the catch block logs, the
\* finally block runs.
AnalyzeCatch(t) ==
  Done([t EXCEPT !.embedFailed = TRUE,
                 !.sets.analyzing = Append(@, FALSE)],
       <<>>)

\* findDuplicates returns value to its caller.
ReturnScan(t, value) ==
  IF t.kind = "analyze" THEN AnalyzeAfterScan(t, value) ELSE Done(t, value)

ComparePhase(t) ==
  LET n == Len(t.papers)
      ps == PairSeq(n)
      found == KeepPairs(ps, t.embeddings, t.threshold)
  IN  ReturnScan(OnProgress([t EXCEPT !.duplicates = found],
                            [x \in 1..Len(ps) |-> CompareProgress(n, ps[x])]),
                 SortDesc(found))

EmbedLoopOneMore(t) ==
  IF t.i <= Len(t.papers) /\ Len(t.papers) > 0
  THEN CallGenerateEmbedding([t EXCEPT !.pc = "embedding"])
  ELSE ComparePhase(t)

\* The embedding loop at index t.i: embed the next paper, or go on to the
\* comparison phase.
EmbedLoop(t) ==
  IF t.i < Len(t.papers)
  THEN CallGenerateEmbedding([t EXCEPT !.pc = "embedding"])
  ELSE ComparePhase(t)

\* findDuplicates(papers, threshold, onProgress) with n papers.  A scan
\* that has settled leaves nothing behind: its thread takes the next call.
FindDuplicates(k, n, threshold) ==
  /\ th[k].pc \in {"idle", "done"}
  /\ Step(k, EmbedLoop([NoThread EXCEPT !.kind = "batch",
                                        !.papers = [x \in 1..n |-> x],
                                        !.threshold = threshold, !.i = 0]))
  /\ UNCHANGED <<embedVars, projects, formVars>>

BatchOnEmbedding(t, v) ==
  EmbedLoop(OnProgress([t EXCEPT !.embeddings = Append(@, v), !.i = @ + 1],
                       <<EmbedProgress(Len(t.papers), t.i)>>))

\* The Detect Duplicates button is clicked (disabled while analysing and
\* below two papers): handleAnalyze up to its first await.
HandleAnalyze(k, n) ==
  /\ ~detector.isAnalyzing
  /\ n >= 2
  /\ th[k].pc \in {"idle", "done"}
  /\ Step(k, EmbedLoop([NoThread EXCEPT !.kind = "analyze",
                                        !.papers = [x \in 1..n |-> x],
                                        !.threshold = 85, !.i = 0,
                                        !.sets.analyzing = <<TRUE>>,
                                        !.sets.progress = <<<<0, 1>>>>,
                                        !.sets.found = <<<<>>>>]))
  /\ UNCHANGED <<embedVars, projects, formVars>>


\* ------------------------------------------------- the interactive checker
\* quickResults.some(d => d.similarity > 0.7)
EscalatesFrom60(quickResults) ==
  \E x \in DOMAIN quickResults : GT(quickResults[x].similarity, 60)

Escalates(quickResults) ==
  \E x \in DOMAIN quickResults : GT(quickResults[x].similarity, 70)

\* checkDuplicates once checkProjectForDuplicates resolved with aiResults;
\* the locals of checkProjectForDuplicates are gone.
CheckAfterAi(t, aiResults) ==
  Done([t EXCEPT !.aiResults = aiResults,
                 !.sets.duplicates = Append(@, aiResults),
                 !.published = aiResults,
                 !.sets.completed = Append(@, TRUE),
                 !.sets.checking = Append(@, FALSE),
                 !.newProjectEmbedding = <<>>,
                 !.embeddings = <<>>, !.duplicates = <<>>, !.i = 0],
       <<>>)

\* ------------------------------------------------- checkProjectForDuplicates
\* The query's rows: all of them, or all but the excluded one.
SelectAll(rows, excludeProjectId) == rows

Select(rows, excludeProjectId) ==
  IF excludeProjectId # Null
  THEN SelectSeq(rows, LAMBDA r : r.id # excludeProjectId)
  ELSE rows

\* checkProjectForDuplicates returns value, to the form's check or to the
\* caller of the library.
ReturnCorpus(t, value) ==
  IF t.kind = "check" THEN CheckAfterAi(t, value) ELSE Done(t, value)

\* The call: the query is built and awaited.
CallCheckProjectForDuplicates(t, threshold, excludeProjectId) ==
  [t EXCEPT !.pc = "fetch", !.threshold = threshold,
            !.excludeProjectId = excludeProjectId]

\* After `await query`: the error and empty returns, else the candidate's
\* embedding is asked for.
CorpusAfterFetchEmbedFirst(t, error, data) ==
  IF error THEN ReturnCorpus(t, <<>>)
  ELSE CallGenerateEmbedding([t EXCEPT !.pc = "cand",
                                       !.existingProjects = data])

CorpusAfterFetch(t, error, data) ==
  IF error THEN ReturnCorpus(t, <<>>)
  ELSE IF data = <<>> THEN ReturnCorpus([t EXCEPT !.existingProjects = data],
                                        <<>>)
  ELSE CallGenerateEmbedding([t EXCEPT !.pc = "cand",
                                       !.existingProjects = data])

\* The loop over existingProjects at index t.i.
CorpusLoop(t) ==
  IF t.i < Len(t.existingProjects)
  THEN CallGenerateEmbedding([t EXCEPT !.pc = "rec"])
  ELSE ReturnCorpus(t, SortDesc(t.duplicates))

CorpusOnEmbeddingStrict(t, v) ==
  IF t.pc = "cand"
  THEN CorpusLoop([t EXCEPT !.newProjectEmbedding = v, !.duplicates = <<>>,
                            !.embeddings = <<>>, !.i = 0])
  ELSE LET existingProject == t.existingProjects[t.i + 1]
           similarity == cosineSimilarity(t.newProjectEmbedding, v)
       IN  CorpusLoop([t EXCEPT
             !.embeddings = Append(@, v),
             !.duplicates =
               IF GT(similarity, t.threshold)
               THEN Append(@, [project |-> existingProject,
                               similarity |-> similarity])
               ELSE @,
             !.i = @ + 1])

CorpusOnEmbedding(t, v) ==
  IF t.pc = "cand"
  THEN CorpusLoop([t EXCEPT !.newProjectEmbedding = v, !.duplicates = <<>>,
                            !.embeddings = <<>>, !.i = 0])
  ELSE LET existingProject == t.existingProjects[t.i + 1]
           similarity == cosineSimilarity(t.newProjectEmbedding, v)
       IN  CorpusLoop([t EXCEPT
             !.embeddings = Append(@, v),
             !.duplicates =
               IF GE(similarity, t.threshold)
               THEN Append(@, [project |-> existingProject,
                               similarity |-> similarity])
               ELSE @,
             !.i = @ + 1])

\* catch (error) { console.error(...); return []; }
CorpusOnEmbedError(t) ==
  ReturnCorpus([t EXCEPT !.embedFailed = TRUE], <<>>)

\* ------------------------------------------------------- quickDuplicateCheck
RECURSIVE QuickLoopStrict(_, _, _)
QuickLoopStrict(title, abstract, rows) ==
  IF rows = <<>> THEN <<>>
  ELSE LET project == Head(rows)
           inputText == toLowerCase(title \o <<" ">> \o abstract)
           projectText == toLowerCase(Template(project.title) \o <<" ">>
                                        \o Template(project.abstract))
           titleSimilarity == quickSimilarityCheck(title, project.title)
           textSimilarity == quickSimilarityCheck(inputText, projectText)
           maxSimilarity == SimMax(titleSimilarity, textSimilarity)
           rest == QuickLoopStrict(title, abstract, Tail(rows))
       IN  IF GT(maxSimilarity, 60)
           THEN <<[project |-> project, similarity |-> maxSimilarity]>>
                  \o rest
           ELSE rest

RECURSIVE QuickLoop(_, _, _)
QuickLoop(title, abstract, rows) ==
  IF rows = <<>> THEN <<>>
  ELSE LET project == Head(rows)
           inputText == toLowerCase(title \o <<" ">> \o abstract)
           projectText == toLowerCase(Template(project.title) \o <<" ">>
                                        \o Template(project.abstract))
           titleSimilarity == quickSimilarityCheck(title, project.title)
           textSimilarity == quickSimilarityCheck(inputText, projectText)
           maxSimilarity == SimMax(titleSimilarity, textSimilarity)
           rest == QuickLoop(title, abstract, Tail(rows))
       IN  IF GE(maxSimilarity, 60)
           THEN <<[project |-> project, similarity |-> maxSimilarity]>>
                  \o rest
           ELSE rest

\* After `await query`: [] on an error, else the matches, sorted.
QuickAfterFetch(t, error, data) ==
  IF error THEN <<>> ELSE SortDesc(QuickLoop(t.title, t.abstract, data))

\* ----------------------------------------------------------- checkDuplicates
\* checkDuplicates once quickDuplicateCheck resolved with quickResults.
CheckAfterQuick(t, quickResults) ==
  LET published == [t EXCEPT !.quickResults = quickResults,
                             !.sets.duplicates = Append(@, quickResults),
                             !.published = quickResults]
  IN  IF Escalates(quickResults)
      THEN CallCheckProjectForDuplicates(
             [published EXCEPT !.aiCalled = TRUE], 75, Null)
      ELSE Done([published EXCEPT !.sets.completed = Append(@, TRUE),
                                  !.sets.checking = Append(@, FALSE)],
                <<>>)

ReturnQuick(t, value) ==
  IF t.kind = "check" THEN CheckAfterQuick(t, value) ELSE Done(t, value)

\* checkDuplicates(title, abstract) up to its first await.
CheckDuplicates(title, abstract) ==
  IF trim(title) = <<>> \/ Len(title) < 5
  THEN Done([NoThread EXCEPT !.kind = "check",
                             !.title = title, !.abstract = abstract,
                             !.sets.duplicates = <<<<>>>>,
                             !.sets.completed = <<FALSE>>],
            <<>>)
  ELSE [NoThread EXCEPT !.kind = "check", !.pc = "quick",
                        !.title = title, !.abstract = abstract,
                        !.sets.checking = <<TRUE>>]

\* The store answers a thread's query: with an error, or with the rows.
FetchResolve(k, error) ==
  /\ Running(k)
  /\ th[k].pc \in {"quick", "fetch"}
  /\ th[k].emb = "none"
  /\ LET t == [Resume(th[k]) EXCEPT !.error = error]
         data == Select(projects, t.excludeProjectId)
     IN  Step(k, IF t.pc = "quick"
                 THEN ReturnQuick(t, QuickAfterFetch(t, error, data))
                 ELSE CorpusAfterFetch(t, error, data))
  /\ UNCHANGED <<embedVars, projects, formVars>>

\* A call of checkProjectForDuplicates from outside the form.
CheckProjectForDuplicates(k, newProject, threshold, excludeProjectId) ==
  /\ th[k].pc \in {"idle", "done"}
  /\ Step(k, CallCheckProjectForDuplicates(
               [NoThread EXCEPT !.kind = "corpus",
                                !.title = newProject.title,
                                !.abstract = newProject.abstract],
               threshold, excludeProjectId))
  /\ UNCHANGED <<embedVars, projects, formVars>>

\* A call of quickDuplicateCheck from outside the form.
QuickDuplicateCheck(k, title, abstract, excludeProjectId) ==
  /\ th[k].pc \in {"idle", "done"}
  /\ Step(k, [NoThread EXCEPT !.kind = "quick", !.pc = "quick",
                              !.title = title, !.abstract = abstract,
                              !.excludeProjectId = excludeProjectId])
  /\ UNCHANGED <<embedVars, projects, formVars>>

\* --------------------------------------------------------- generateEmbedding
\* The caller's continuation once generateEmbedding resolved with v.
OnEmbedding(t, v) ==
  CASE t.kind \in {"batch", "analyze"} -> BatchOnEmbedding(t, v)
    [] t.pc \in {"cand", "rec"} -> CorpusOnEmbedding(t, v)
    [] OTHER -> Done(t, v)

\* The caller's continuation once generateEmbedding (or a direct
\* initializeEmbeddings) rejected: checkProjectForDuplicates catches, and so
\* does handleAnalyze around findDuplicates.
OnEmbedError(t) ==
  IF t.pc \in {"cand", "rec"} THEN CorpusOnEmbedError(t)
  ELSE IF t.kind = "analyze" THEN AnalyzeCatch(t)
  ELSE [t EXCEPT !.pc = "done", !.emb = "none", !.outcome = "threw"]

CpuRejectRetry(k) ==
  /\ th[k].emb = "cpu"
  /\ Step(k, [th[k] EXCEPT !.emb = "gpu", !.sets = NoSets])
  /\ UNCHANGED <<embedVars, projects, formVars>>

CpuRejectPoisons(k) ==
  /\ th[k].emb = "cpu"
  /\ embeddingPipeline' = constructed + 1
  /\ constructed' = constructed
  /\ Step(k, OnEmbedError(Resume(th[k])))
  /\ UNCHANGED <<projects, formVars>>

\* The default attempt threw too: initializeEmbeddings rejects.
CpuReject(k) ==
  /\ th[k].emb = "cpu"
  /\ Step(k, OnEmbedError(Resume(th[k])))
  /\ UNCHANGED <<embedVars, projects, formVars>>

\* pipeline(text, {pooling, normalize}) resolved with the vector v.
RunResolve(k, v) ==
  /\ th[k].emb = "run"
  /\ Step(k, OnEmbedding(Resume(th[k]), v))
  /\ UNCHANGED <<embedVars, projects, formVars>>

\* pipeline(text, ...) threw.
RunReject(k) ==
  /\ th[k].emb = "run"
  /\ Step(k, OnEmbedError(Resume(th[k])))
  /\ UNCHANGED <<embedVars, projects, formVars>>

EmbeddingStep ==
  \E k \in {x \in Threads : Running(x)} :
    \/ PipelineResolve(k)
    \/ GpuReject(k)
    \/ CpuReject(k)
    \/ \E v \in Vecs : RunResolve(k, v)
    \/ RunReject(k)

\* ------------------------------------------------------ ProjectSubmissionForm
\* The first n letters as one-letter words, and c repeated n times.
Spaced(n) ==
  [x \in 1..(2 * n - 1) |-> IF x % 2 = 1 THEN Letters[(x + 1) \div 2] ELSE " "]

Rep(c, n) == [x \in 1..n |-> c]

\* Rows of the projects table: abstract is nullable.
Row1 == [id |-> 1, title |-> Spaced(20), abstract |-> Rep("y", 50)]
Row2 == [id |-> 2, title |-> <<"z", "e", "b", "r", "a">>, abstract |-> JsNull]
Row3 == [id |-> 3, title |-> Spaced(3), abstract |-> JsNull]

\* What the user types: a title too short to check, and titles sharing 13
\* and 17 of the 20 words of Row1's title.
FormTitles == {<<"a", "b">>, Spaced(13), Spaced(17)}
FormAbstracts == {Rep("x", 50)}

\* The form is on screen until a submission navigates away.
Mounted == submit.pc # "navigated"

\* projectSchema: title min(5), abstract min(50).
Valid(data) == Len(data.title) >= 5 /\ Len(data.abstract) >= 50

\* duplicates.some(d => d.similarity > 0.85): the button's disabled prop,
\* DuplicateWarning's severity and onFormSubmit's filter.
Blocking(ds) == \E x \in DOMAIN ds : GT(ds[x].similarity, 85)

SubmitDisabled == submit.isSubmitting \/ Blocking(duplicates)

\* fetchInitialData found the profile.
ProfileLoaded ==
  /\ ~userProfile
  /\ userProfile' = TRUE
  /\ UNCHANGED <<embedVars, projects, th, checkVars, form, checkTimeoutRef,
                 submit>>

\* The id setTimeout returns: one no pending timer has and the ref does not
\* hold (ids are only ever compared, so the least such stands for it).
FreshTimer ==
  LET used == {x.id : x \in checkTimeoutRef.timers} \cup {checkTimeoutRef.current}
  IN  Least((1..Cardinality(used) + 1) \ used)

\* clearTimeout(id): the pending timer of that id, if any, never fires.
clearTimeout(timers, id) == {x \in timers : x.id # id}

triggerDuplicateCheckNoClear(title, abstract) ==
  checkTimeoutRef' =
    [current |-> FreshTimer,
     timers |-> checkTimeoutRef.timers
                  \cup {[id |-> FreshTimer, title |-> title,
                         abstract |-> abstract]}]

\* triggerDuplicateCheck(title, abstract)
triggerDuplicateCheck(title, abstract) ==
  LET pending == IF checkTimeoutRef.current # Null
                 THEN clearTimeout(checkTimeoutRef.timers,
                                   checkTimeoutRef.current)
                 ELSE checkTimeoutRef.timers
  IN  checkTimeoutRef' =
        [current |-> FreshTimer,
         timers |-> pending \cup {[id |-> FreshTimer, title |-> title,
                                   abstract |-> abstract]}]

\* The title input's onChange.
TitleChange(value) ==
  /\ Mounted
  /\ value # form.title
  /\ form' = [form EXCEPT !.title = value]
  /\ triggerDuplicateCheck(value, form.abstract)
  /\ UNCHANGED <<embedVars, projects, th, checkVars, submit, userProfile>>

\* The abstract textarea's onChange.
AbstractChange(value) ==
  /\ Mounted
  /\ value # form.abstract
  /\ form' = [form EXCEPT !.abstract = value]
  /\ triggerDuplicateCheck(form.title, value)
  /\ UNCHANGED <<embedVars, projects, th, checkVars, submit, userProfile>>

\* A pending timer fires after its second: checkDuplicates runs with the
\* arguments the timer was created with, to its first await.
TimerFire(k) ==
  /\ Mounted
  /\ Idle(k)
  /\ \E x \in checkTimeoutRef.timers :
       /\ checkTimeoutRef' = [checkTimeoutRef EXCEPT !.timers = @ \ {x}]
       /\ Step(k, CheckDuplicates(x.title, x.abstract))
  /\ UNCHANGED <<embedVars, projects, form, submit, userProfile>>

\* A check of the form's present title and abstract has settled, nothing
\* newer is pending, and what it published holds no blocking match.
CheckedClean ==
  /\ checkTimeoutRef.timers = {}
  /\ \E k \in Threads :
       /\ th[k].kind = "check" /\ th[k].pc = "done"
       /\ th[k].title = form.title /\ th[k].abstract = form.abstract
       /\ \A j \in Threads : j > k => th[j].kind = "none"
       /\ ~Blocking(th[k].published)

\* The submit button is clicked: onFormSubmit(data) up to its first await.
OnFormSubmit ==
  /\ Mounted
  /\ ~SubmitDisabled
  /\ Valid(form)
  /\ submit' = IF ~userProfile THEN submit
               ELSE IF Blocking(duplicates) THEN submit
               ELSE [pc |-> "insert", isSubmitting |-> TRUE, data |-> form,
                     checked |-> CheckedClean]
  /\ UNCHANGED <<embedVars, projects, th, checkVars, form, checkTimeoutRef,
                 userProfile>>

\* The insert into projects resolved.
InsertResolve(error) ==
  /\ submit.pc = "insert"
  /\ IF error
     THEN /\ submit' = NoSubmit
          /\ UNCHANGED projects
     ELSE /\ submit' = [submit EXCEPT !.pc = "history"]
          /\ projects' = Append(projects,
                                [id |-> Len(projects) + 1,
                                 title |-> submit.data.title,
                                 abstract |-> submit.data.abstract])
  /\ UNCHANGED <<embedVars, th, checkVars, form, checkTimeoutRef, userProfile>>

\* The insert into history_logs resolved: onSubmit navigates away.
HistoryResolve ==
  /\ submit.pc = "history"
  /\ submit' = [submit EXCEPT !.pc = "navigated", !.isSubmitting = FALSE]
  /\ UNCHANGED <<embedVars, projects, th, checkVars, form, checkTimeoutRef,
                 userProfile>>

\* ---------------------------------------------------------------- FileUpload
\* Files are numbered in the order they are dropped.  An entry of the list
\* holds its file, progress and status, and by: the files whose uploads have
\* written to it.
\* onDrop(acceptedFiles) with the one file the dropzone accepts
\* (multiple: false), up to the await of the upload: the entry is appended,
\* uploadIndex is the list's length as rendered, the progress timer starts.
OnDrop(user) ==
  /\ Len(uploads) < MaxFiles
  /\ IF ~user
     THEN UNCHANGED uploadVars
     ELSE /\ uploadingFiles' =
               Append(uploadingFiles,
                      [file |-> Len(uploads) + 1, progress |-> 0,
                       status |-> "uploading", by |-> {}])
          /\ uploads' = Append(uploads, [uploadIndex |-> Len(uploadingFiles),
                                         pc |-> "uploading"])
  /\ UNCHANGED <<embedVars, projects, th, duplicates, isDuplicateChecking,
                 duplicateCheckCompleted, duplicatesBy, detector, formVars>>

\* The progress timer of file f's upload ticks.
ProgressTick(f) ==
  /\ uploads[f].pc = "uploading"
  /\ uploadingFiles' =
       [idx \in DOMAIN uploadingFiles |->
          IF idx - 1 = uploads[f].uploadIndex /\ uploadingFiles[idx].progress < 90
          THEN [uploadingFiles[idx] EXCEPT !.progress = @ + 10,
                                           !.by = @ \cup {f}]
          ELSE uploadingFiles[idx]]
  /\ UNCHANGED <<embedVars, projects, th, duplicates, isDuplicateChecking,
                 duplicateCheckCompleted, duplicatesBy, detector, formVars,
                 uploads>>

\* The upload of file f settled: the timer is cleared, the entry at
\* uploadIndex is marked success (and onFileUploaded called) or error.
UploadResolve(f, error) ==
  /\ uploads[f].pc = "uploading"
  /\ uploadingFiles' =
       [idx \in DOMAIN uploadingFiles |->
          IF idx - 1 = uploads[f].uploadIndex
          THEN IF error
               THEN [uploadingFiles[idx] EXCEPT !.status = "error",
                                                !.by = @ \cup {f}]
               ELSE [uploadingFiles[idx] EXCEPT !.status = "success",
                                                !.progress = 100,
                                                !.by = @ \cup {f}]
          ELSE uploadingFiles[idx]]
  /\ uploads' = [uploads EXCEPT ![f].pc = IF error THEN "error" ELSE "success"]
  /\ UNCHANGED <<embedVars, projects, th, duplicates, isDuplicateChecking,
                 duplicateCheckCompleted, duplicatesBy, detector, formVars>>

\* removeFile(index): the X button of the entry at index (from 0).
RemoveFile(index) ==
  /\ index \in 0..Len(uploadingFiles) - 1
  /\ uploadingFiles' =
       SubSeq(uploadingFiles, 1, index)
         \o SubSeq(uploadingFiles, index + 2, Len(uploadingFiles))
  /\ UNCHANGED <<embedVars, projects, th, duplicates, isDuplicateChecking,
                 duplicateCheckCompleted, duplicatesBy, detector, formVars,
                 uploads>>

\* ------------------------------------------------------------ specifications
\* Callers of the embedding provider, sequential and concurrent.
NextEmbed ==
  \/ \E k \in Threads : InitCall(k)
  \/ \E k \in Threads : EmbedCall(k)
  \/ EmbeddingStep

SpecEmbed == Init /\ [][NextEmbed]_vars

\* Batch scans.
NextBatch ==
  \/ \E k \in ScanThreads, n \in 0..MaxPapers, threshold \in ScanThresholds :
       FindDuplicates(k, n, threshold)
  \/ EmbeddingStep

SpecBatch == Init /\ [][NextBatch]_vars

\* Corpus checks called on a store of zero to two rows.
Stores == {<<>>, <<Row1>>, <<Row1, Row2>>, <<Row3>>}
Candidates == {[title |-> t, abstract |-> <<>>] : t \in FormTitles}
\* What quickDuplicateCheck is called with: titles sharing 0, 12, 13 and 17
\* of the 20 words of Row1's, and 2 of the 3 of Row3's; no abstract, Row1's
\* abstract, or the third word of Row3's title as the abstract.
QuickCandidates ==
  Candidates
    \cup {[title |-> Spaced(12), abstract |-> a] : a \in {<<>>, Rep("y", 50)}}
    \cup {[title |-> Spaced(2), abstract |-> a] : a \in {<<>>, <<"c">>}}
ExcludeIds == {Null, 1}
\* The thresholds checkProjectForDuplicates is called with, in hundredths:
\* its default (the one the form passes) and 0.8.
CorpusThresholds == {75, 80}

InitCorpus ==
  /\ InitEmbed
  /\ InitForm
  /\ projects \in Stores

NextCorpus ==
  \/ \E k \in CorpusThreads, c \in Candidates, x \in ExcludeIds,
          threshold \in CorpusThresholds :
       CheckProjectForDuplicates(k, c, threshold, x)
  \/ \E k \in CorpusThreads, c \in QuickCandidates, x \in ExcludeIds :
       QuickDuplicateCheck(k, c.title, c.abstract, x)
  \/ \E k \in CorpusThreads, error \in BOOLEAN : FetchResolve(k, error)
  \/ EmbeddingStep

SpecCorpus == InitCorpus /\ [][NextCorpus]_vars

\* The form's checker over a store of one row: typing, the debounce timer
\* and the checks it starts.
InitSubmission ==
  /\ InitEmbed
  /\ InitForm
  /\ projects = <<Row1>>

NextChecker ==
  \/ \E value \in FormTitles : TitleChange(value)
  \/ \E value \in FormAbstracts : AbstractChange(value)
  \/ \E k \in CheckThreads : TimerFire(k)
  \/ \E k \in CheckThreads, error \in BOOLEAN : FetchResolve(k, error)
  \/ EmbeddingStep

SpecForm == InitSubmission /\ [][NextChecker]_vars

\* The form's checker and the detector side by side, every awaited call
\* settling in the end: the store query and each stage of the embedding
\* provider resolve or reject.
DetectorThread == MaxThreads

\* A stored title of three words, and what the user types: a title too
\* short to check, the stored title, an unrelated one; a one-word abstract.
LiveTitles == {Spaced(2), Spaced(3), Row2.title}
LiveAbstracts == {<<"c">>}

InitLive ==
  /\ InitEmbed
  /\ InitForm
  /\ projects = <<Row3>>

NextLive ==
  \/ \E value \in LiveTitles : TitleChange(value)
  \/ \E value \in LiveAbstracts : AbstractChange(value)
  \/ \E k \in SubmitCheckThreads : TimerFire(k)
  \/ \E k \in SubmitCheckThreads, error \in BOOLEAN : FetchResolve(k, error)
  \/ \E n \in 2..MaxLivePapers : HandleAnalyze(DetectorThread, n)
  \/ EmbeddingStep

\* The call thread k awaits settles: it throws, or it returns.
Settle(k) ==
  \/ FetchResolve(k, TRUE)
  \/ FetchResolve(k, FALSE)
  \/ /\ Running(k)
     /\ \/ GpuReject(k)
        \/ CpuReject(k)
        \/ RunReject(k)
        \/ PipelineResolve(k)
        \/ \E v \in Vecs : RunResolve(k, v)

Fairness == \A k \in Threads : WF_vars(Settle(k))

SpecLive == InitLive /\ [][NextLive]_vars /\ Fairness

\* The FileUpload of the form: drops, timer ticks, settling uploads and
\* removals in any order.
NextUpload ==
  \/ \E user \in BOOLEAN : OnDrop(user)
  \/ \E f \in DOMAIN uploads : ProgressTick(f)
  \/ \E f \in DOMAIN uploads, error \in BOOLEAN : UploadResolve(f, error)
  \/ \E index \in 0..MaxFiles - 1 : RemoveFile(index)

SpecUpload == Init /\ [][NextUpload]_vars

\* The form with its submit button.
NextSubmit ==
  \/ ProfileLoaded
  \/ \E value \in FormTitles : TitleChange(value)
  \/ \E value \in FormAbstracts : AbstractChange(value)
  \/ \E k \in SubmitCheckThreads : TimerFire(k)
  \/ \E k \in SubmitCheckThreads, error \in BOOLEAN : FetchResolve(k, error)
  \/ EmbeddingStep
  \/ OnFormSubmit
  \/ \E error \in BOOLEAN : InsertResolve(error)
  \/ HistoryResolve

SpecSubmit == InitSubmission /\ [][NextSubmit]_vars

\* cosineSimilarity called on two vectors of up to MaxDim components, of
\* equal length or not.
Components == {-1, 0, 1}
Vectors == UNION {[1..n -> Components] : n \in 0..MaxDim}

InitCosine ==
  /\ embeddingPipeline = Null
  /\ constructed = 0
  /\ \E a \in Vectors, b \in Vectors :
       th = [k \in Threads |->
               IF k = 1
               THEN [NoThread EXCEPT !.kind = "cosine", !.pc = "called",
                                     !.a = a, !.b = b]
               ELSE NoThread]
  /\ InitForm
  /\ projects = <<>>

\* The call cosineSimilarity(a, b) runs.
CosineSimilarity(k) ==
  /\ th[k].kind = "cosine" /\ th[k].pc = "called"
  /\ Step(k, Done(th[k], cosineSimilarity(th[k].a, th[k].b)))
  /\ UNCHANGED <<embedVars, projects, formVars>>

NextCosine == \E k \in Threads : CosineSimilarity(k)

SpecCosine == InitCosine /\ [][NextCosine]_vars

\* quickSimilarityCheck called on two texts of up to MaxTextLen characters:
\* a lower-case and an upper-case letter, whitespace and punctuation.
TextChars == {"a", "B", " ", "."}
Texts == UNION {[1..n -> TextChars] : n \in 0..MaxTextLen}

InitLexical ==
  /\ embeddingPipeline = Null
  /\ constructed = 0
  /\ \E text1 \in Texts, text2 \in Texts :
       th = [k \in Threads |->
               IF k = 1
               THEN [NoThread EXCEPT !.kind = "lexical", !.pc = "called",
                                     !.text1 = text1, !.text2 = text2]
               ELSE NoThread]
  /\ InitForm
  /\ projects = <<>>

\* The call quickSimilarityCheck(text1, text2) runs.
QuickSimilarityCheck(k) ==
  /\ th[k].kind = "lexical" /\ th[k].pc = "called"
  /\ Step(k, Done(th[k], quickSimilarityCheck(th[k].text1, th[k].text2)))
  /\ UNCHANGED <<embedVars, projects, formVars>>

NextLexical == \E k \in Threads : QuickSimilarityCheck(k)

SpecLexical == InitLexical /\ [][NextLexical]_vars

\* -------------------------------------------------------------------- claims
Checks == {k \in Threads : th[k].kind = "check"}

\* The checks that went past the short-title return.
FullChecks == {k \in Checks : ~(trim(th[k].title) = <<>> \/ Len(th[k].title) < 5)}

\* C1: however calls of initializeEmbeddings and generateEmbedding
\* interleave, pipeline() constructs the model successfully at most once:
\* callers arriving during the first initialisation share it.
C1_SingleConstruction == constructed <= 1

\* C2: once the checks that were started have all finished, in whatever
\* order, the duplicates state is what the check of the newest input
\* published; an older check never overwrites it.
C2_NewestCheckWins ==
  (Checks # {} /\ \A k \in Checks : th[k].pc = "done") =>
    duplicates = th[Greatest(Checks)].published

\* Some lexical quick result is strictly above 0.7.
AboveEscalationBar(quickResults) ==
  \E x \in DOMAIN quickResults :
    LET s == quickResults[x].similarity
    IN  s.n * s.n * 100 > 49 * s.d2

\* C3 as stated: a check calls checkProjectForDuplicates, and with it the
\* embedding provider, if and only if a quick result is strictly above 0.7;
\* it settles with the lexical results when it does not, and with the
\* semantic ones when it does.
C3_EscalationIff ==
  \A k \in FullChecks : th[k].pc = "done" =>
    LET bar == AboveEscalationBar(th[k].quickResults)
    IN  /\ th[k].aiCalled <=> bar
        /\ th[k].embedCalls > 0 <=> bar
        /\ ~bar => th[k].published = th[k].quickResults
        /\ bar => th[k].published = th[k].aiResults

\* C3 as amended: checkProjectForDuplicates is called if and only if a quick
\* result is strictly above 0.7; the embedding provider is called only then,
\* and is called whenever the escalated check's own query answers with at
\* least one row; the check settles with the lexical results when it does
\* not escalate and with the semantic ones when it does.
C3_Escalation ==
  \A k \in FullChecks : th[k].pc = "done" =>
    LET bar == AboveEscalationBar(th[k].quickResults)
    IN  /\ th[k].aiCalled <=> bar
        /\ th[k].embedCalls > 0 => bar
        /\ (bar /\ ~th[k].error /\ th[k].existingProjects # <<>>)
             => th[k].embedCalls > 0
        /\ ~bar => th[k].published = th[k].quickResults
        /\ bar => th[k].published = th[k].aiResults

\* A check escalated, embedded and settled with semantic results that are
\* not its lexical ones.
C3_Witness ==
  \E k \in FullChecks :
    /\ th[k].pc = "done" /\ th[k].aiCalled /\ th[k].embedCalls > 0
    /\ th[k].published # th[k].quickResults
    /\ th[k].published # <<>>

\* C4: when the embedding path fails in the escalated stage of a check,
\* nothing escapes to the form and the lexical results published before stay
\* in the duplicates state.
C4_LexicalResultsKept ==
  \A k \in FullChecks : (th[k].pc = "done" /\ th[k].embedFailed) =>
    /\ th[k].outcome = "returned"
    /\ th[k].published = th[k].quickResults
    /\ duplicatesBy = k => duplicates = th[k].quickResults

\* C5: a failed store query reaches the caller of checkProjectForDuplicates
\* and quickDuplicateCheck as something other than the empty list that
\* means no duplicates.
C5_FetchFailureSurfaced ==
  \A k \in Threads :
    (th[k].kind \in {"corpus", "quick"} /\ th[k].pc = "done" /\ th[k].error)
      => ~(th[k].outcome = "returned" /\ th[k].ret = <<>>)

\* C6: a project row is inserted only if, when the form was submitted, the
\* check of its present title and abstract had completed without a match
\* above the blocking threshold.
C6_InsertOnlyAfterCleanCheck ==
  submit.pc \in {"history", "navigated"} => submit.checked

\* C7: while duplicates holds a match of similarity 0.85 or more the submit
\* button is disabled, and no step starts an insert.
C7_BlockedFrom85 ==
  [][(\E x \in DOMAIN duplicates :
        LET s == duplicates[x].similarity
        IN  s.n * s.n * 400 >= 289 * s.d2)
     => /\ SubmitDisabled
        /\ submit'.pc = "insert" => submit.pc = "insert"]_vars

\* C8: findDuplicates on fewer than two papers calls the embedding provider
\* not once and returns the empty sequence.
C8_FewPapersNoEmbedding ==
  \A k \in Threads : (th[k].kind = "batch" /\ Len(th[k].papers) < 2) =>
    /\ th[k].embedCalls = 0
    /\ th[k].pc = "done" => (th[k].outcome = "returned" /\ th[k].ret = <<>>)

\* C9: checkProjectForDuplicates whose query answers with no row (an empty
\* table, or only the excluded row) computes no embedding, the candidate's
\* included, and returns the empty sequence.
C9_EmptyCorpusNoEmbedding ==
  \A k \in Threads :
    (/\ th[k].kind = "corpus" /\ th[k].pc # "fetch"
     /\ ~th[k].error /\ th[k].existingProjects = <<>>)
      => /\ th[k].embedCalls = 0
         /\ th[k].pc = "done" /\ th[k].outcome = "returned"
         /\ th[k].ret = <<>>

\* The store held only the row the call excluded.
C9_Witness ==
  \E k \in Threads :
    /\ th[k].kind = "corpus" /\ th[k].pc = "done" /\ ~th[k].error
    /\ th[k].existingProjects = <<>>
    /\ projects # <<>> /\ th[k].excludeProjectId # Null

\* C10: the progress reports of one findDuplicates call on N >= 2 papers
\* have the total 2N throughout, a current that never decreases, and end
\* with (2N, 2N).
C10_ProgressEndsAtTotal ==
  \A k \in Threads :
    (/\ th[k].kind = "batch" /\ th[k].pc = "done"
     /\ th[k].outcome = "returned" /\ Len(th[k].papers) >= 2)
      => LET p == th[k].progress
             total == 2 * Len(th[k].papers)
         IN  /\ \A x \in DOMAIN p : p[x][2] = total
             /\ \A x \in 1..(Len(p) - 1) : p[x][1] <= p[x + 1][1]
             /\ p[Len(p)] = <<total, total>>

\* The scans that returned.
Scanned == {k \in Threads : /\ th[k].kind = "batch" /\ th[k].pc = "done"
                            /\ th[k].outcome = "returned"}

\* The similarity s is a number at or above pct / 100.
AtLeast(s, pct) == s.d2 > 0 /\ s.n >= 0 /\ s.n * s.n * 10000 >= pct * pct * s.d2

\* s is a smaller number than t, both non-negative.
Below(s, t) == s.n * s.n * t.d2 < t.n * t.n * s.d2

\* The cosine similarity of the embeddings of papers p[1] and p[2] (from 0).
PairSim(t, p) == cosineSimilarity(t.embeddings[p[1] + 1], t.embeddings[p[2] + 1])

\* The pairs i < j of a scan whose similarity is at or above its threshold.
Wanted(t) ==
  {p \in (0..Len(t.papers) - 1) \X (0..Len(t.papers) - 1) :
     p[1] < p[2] /\ AtLeast(PairSim(t, p), t.threshold)}

\* C11: findDuplicates returns exactly the pairs i < j whose embeddings have
\* a cosine similarity at or above the threshold, each once and with that
\* similarity: no pair below it, no self-pair, no reversed pair.
C11_ExactPairs ==
  \A k \in Scanned :
    LET t == th[k]
    IN  /\ Len(t.ret) = Cardinality(Wanted(t))
        /\ {<<t.ret[x].paper1, t.ret[x].paper2>> : x \in DOMAIN t.ret} = Wanted(t)
        /\ \A x \in DOMAIN t.ret :
             t.ret[x].similarity = PairSim(t, <<t.ret[x].paper1, t.ret[x].paper2>>)

\* A scan of three papers returned a pair exactly at its threshold and left
\* a pair below it out.
C11_Witness ==
  \E k \in Scanned :
    /\ Len(th[k].papers) = 3 /\ Len(th[k].ret) < 3
    /\ \E x \in DOMAIN th[k].ret :
         LET s == th[k].ret[x].similarity
         IN  s.n * s.n * 10000 = th[k].threshold * th[k].threshold * s.d2

\* C12: what findDuplicates returns is ordered by similarity, never
\* increasing, and matches of equal similarity stay in pair order (i
\* ascending, then j ascending).
C12_SortedStable ==
  \A k \in Scanned :
    \A x, y \in DOMAIN th[k].ret : x < y =>
      LET a == th[k].ret[x]
          b == th[k].ret[y]
      IN  /\ ~Below(a.similarity, b.similarity)
          /\ ~Below(b.similarity, a.similarity) =>
               \/ a.paper1 < b.paper1
               \/ (a.paper1 = b.paper1 /\ a.paper2 < b.paper2)

\* A scan whose sort moved a later pair before two earlier ones that tie.
C12_Witness ==
  \E k \in Scanned :
    /\ Len(th[k].ret) = 3 /\ th[k].ret # th[k].duplicates
    /\ Below(th[k].ret[2].similarity, th[k].ret[1].similarity)
    /\ ~Below(th[k].ret[3].similarity, th[k].ret[2].similarity)

\* The calls of checkProjectForDuplicates that fetched at least one record
\* and returned with every embedding computed.
CorpusChecked ==
  {k \in Threads : /\ th[k].kind = "corpus" /\ th[k].pc = "done"
                   /\ th[k].outcome = "returned"
                   /\ ~th[k].error /\ ~th[k].embedFailed
                   /\ th[k].existingProjects # <<>>}

\* The similarity of the candidate and the x-th fetched record.
RecordSim(t, x) == cosineSimilarity(t.newProjectEmbedding, t.embeddings[x])

\* C13: checkProjectForDuplicates on a non-empty corpus returns exactly the
\* fetched records whose embedding is at or above the threshold against the
\* candidate's, each once with that similarity, by similarity descending;
\* it computes the candidate's embedding once and each record's once.
C13_CorpusExact ==
  \A k \in CorpusChecked :
    LET t == th[k]
        hits == {x \in DOMAIN t.existingProjects :
                   AtLeast(RecordSim(t, x), t.threshold)}
    IN  /\ t.embedCalls = 1 + Len(t.existingProjects)
        /\ Len(t.embeddings) = Len(t.existingProjects)
        /\ Len(t.ret) = Cardinality(hits)
        /\ {t.ret[x] : x \in DOMAIN t.ret} =
             {[project |-> t.existingProjects[x],
               similarity |-> RecordSim(t, x)] : x \in hits}
        /\ \A x, y \in DOMAIN t.ret :
             x < y => ~Below(t.ret[x].similarity, t.ret[y].similarity)

\* Of two fetched records one was returned, exactly at the threshold, and
\* the other left out.
C13_Witness ==
  \E k \in CorpusChecked :
    /\ Len(th[k].existingProjects) = 2 /\ Len(th[k].ret) = 1
    /\ LET s == th[k].ret[1].similarity
       IN  s.n * s.n * 10000 = th[k].threshold * th[k].threshold * s.d2

\* The calls of cosineSimilarity that have run.
CosineCalls == {k \in Threads : th[k].kind = "cosine" /\ th[k].pc = "done"}

\* C14: cosineSimilarity on two vectors of different lengths throws, in
\* either argument order; it returns nothing computed from a prefix or from
\* undefined components.
C14_DimensionMismatch ==
  \A k \in CosineCalls :
    Len(th[k].a) # Len(th[k].b) => th[k].outcome = "threw"

\* Every component of v is zero.
ZeroVector(v) == \A x \in DOMAIN v : v[x] = 0

\* C15: cosineSimilarity on two vectors of one length, at least one of them
\* all zeros, returns the number 0.
C15_ZeroMagnitudeIsZero ==
  \A k \in CosineCalls :
    (/\ Len(th[k].a) = Len(th[k].b) /\ Len(th[k].a) >= 1
     /\ (ZeroVector(th[k].a) \/ ZeroVector(th[k].b)))
      => /\ th[k].outcome = "returned"
         /\ th[k].ret.d2 > 0 /\ th[k].ret.n = 0

\* The calls of quickSimilarityCheck that have run.
LexicalCalls == {k \in Threads : th[k].kind = "lexical" /\ th[k].pc = "done"}

\* The tokens of a text: its maximal runs of characters other than
\* whitespace, each counted once.
Tokens(str) ==
  {SubSeq(str, p[1], p[2]) :
     p \in {q \in (1..Len(str)) \X (1..Len(str)) :
              /\ q[1] <= q[2]
              /\ \A x \in q[1]..q[2] : str[x] # " "
              /\ IF q[1] = 1 THEN TRUE ELSE str[q[1] - 1] = " "
              /\ IF q[2] = Len(str) THEN TRUE ELSE str[q[2] + 1] = " "}}

\* C16: quickSimilarityCheck on two texts that both normalize to no token
\* at all (empty, whitespace only, punctuation only) returns the number 0.
C16_NoTokensIsZero ==
  \A k \in LexicalCalls :
    (Tokens(normalize(th[k].text1)) = {} /\ Tokens(normalize(th[k].text2)) = {})
      => th[k].ret.d2 > 0 /\ th[k].ret.n = 0

\* C17: quickSimilarityCheck lies in [0, 1]; it is 1 when the normalized
\* texts are equal and otherwise the Jaccard index of their token sets,
\* the tokens of a text counted once each.
C17_Jaccard ==
  \A k \in LexicalCalls :
    LET normalized1 == normalize(th[k].text1)
        normalized2 == normalize(th[k].text2)
        inter == Cardinality(Tokens(normalized1) \cap Tokens(normalized2))
        union == Cardinality(Tokens(normalized1) \cup Tokens(normalized2))
        r == th[k].ret
    IN  /\ th[k].outcome = "returned"
        /\ r.d2 > 0 /\ r.n >= 0 /\ r.n * r.n <= r.d2
        /\ IF normalized1 = normalized2
           THEN r.n * r.n = r.d2
           ELSE r.n * r.n * union * union = inter * inter * r.d2

\* Two texts that normalization changes, one of them repeating a token,
\* share one token of two.
C17_Witness ==
  \E k \in LexicalCalls :
    /\ th[k].text1 # normalize(th[k].text1)
    /\ Len(split(normalize(th[k].text1)))
         > Cardinality(Tokens(normalize(th[k].text1)))
    /\ 4 * th[k].ret.n * th[k].ret.n = th[k].ret.d2

\* C18: quickSimilarityCheck(x, y) is the number quickSimilarityCheck(y, x).
C18_Symmetric ==
  \A k \in LexicalCalls :
    LET r == th[k].ret
        swapped == quickSimilarityCheck(th[k].text2, th[k].text1)
    IN  /\ r.d2 > 0 <=> swapped.d2 > 0
        /\ r.n * r.n * swapped.d2 = swapped.n * swapped.n * r.d2

\* The first text has one token and the second that token and another.
C18_Witness ==
  \E k \in LexicalCalls :
    /\ Cardinality(Tokens(normalize(th[k].text1))) = 1
    /\ Cardinality(Tokens(normalize(th[k].text2))) = 2
    /\ th[k].ret.n = 1

\* C19: a call of initializeEmbeddings starts with the webgpu attempt, and
\* only when no model is cached; the default attempt starts only when the
\* webgpu attempt has thrown, and nothing is attempted after it; when the
\* default attempt succeeds the call resolves with the model and nothing is
\* thrown to the caller.
C19_FallbackOnce ==
  [][\A k \in Threads :
       /\ (th'[k].emb = "gpu" /\ th[k].emb # "gpu")
            => (th[k].emb = "none" /\ embeddingPipeline = Null)
       /\ (th'[k].emb = "cpu" /\ th[k].emb # "cpu") => th[k].emb = "gpu"
       /\ th[k].emb = "cpu" => th'[k].emb \in {"cpu", "run", "none"}
       /\ (th[k].emb = "cpu" /\ th'[k] # th[k] /\ constructed' > constructed)
            => /\ th'[k].outcome # "threw"
               /\ embeddingPipeline' # Null
               /\ IF th[k].kind = "init"
                  THEN /\ th'[k].pc = "done" /\ th'[k].outcome = "returned"
                       /\ th'[k].ret = embeddingPipeline'
                  ELSE th'[k].emb = "run"
    ]_vars

\* A direct call whose webgpu attempt threw waits for the default attempt,
\* which can succeed.
C19_Witness ==
  \E k \in Threads :
    /\ th[k].kind = "init" /\ th[k].emb = "cpu"
    /\ ENABLED PipelineResolve(k)

\* C20: when both attempts of a scan's model construction have thrown, the
\* scan rejects with no result and the cached model is left as it was,
\* unset if no construction ever succeeded; a scan that starts while no
\* model is cached starts with the webgpu attempt again.
C20_FailureAbortsScanOnly ==
  [][\A k \in Threads :
       /\ (th[k].kind = "batch" /\ th[k].emb = "cpu" /\ th'[k].emb = "none")
            => /\ th'[k].pc = "done" /\ th'[k].outcome = "threw"
               /\ th'[k].ret = <<>>
               /\ embeddingPipeline' = embeddingPipeline
               /\ constructed = 0 => embeddingPipeline' = Null
       /\ (/\ th[k].pc \in {"idle", "done"} /\ th'[k].kind = "batch"
           /\ th'[k].pc = "embedding" /\ embeddingPipeline = Null)
            => th'[k].emb = "gpu"
    ]_vars

\* A scan was aborted by a construction that failed on both backends (no
\* model was ever constructed), and the next scan can start.
C20_Witness ==
  \E k \in Threads :
    /\ th[k].kind = "batch" /\ th[k].pc = "done" /\ th[k].outcome = "threw"
    /\ constructed = 0 /\ embeddingPipeline = Null
    /\ ENABLED FindDuplicates(k, 1, 85)

\* The calls of checkProjectForDuplicates and of quickDuplicateCheck from
\* outside the form whose query succeeded and that returned.
Fetched ==
  {k \in Threads : /\ th[k].kind \in {"corpus", "quick"} /\ th[k].pc = "done"
                   /\ th[k].outcome = "returned" /\ ~th[k].error}

\* The stored rows other than the one a call excludes, all when it excludes
\* none.
Others(t) == SelectSeq(projects, LAMBDA r : r.id # t.excludeProjectId)

\* C21: a call given an exclude id returns no result for the record of that
\* id, and works on every other stored record: checkProjectForDuplicates
\* fetches them all, quickDuplicateCheck returns what it returns for them.
C21_ExcludedNeverReturned ==
  \A k \in Fetched : th[k].excludeProjectId # Null =>
    /\ \A x \in DOMAIN th[k].ret :
         th[k].ret[x].project.id # th[k].excludeProjectId
    /\ th[k].kind = "corpus" => th[k].existingProjects = Others(th[k])
    /\ th[k].kind = "quick" =>
         th[k].ret = SortDesc(QuickLoop(th[k].title, th[k].abstract,
                                        Others(th[k])))

\* Of two stored records a call excluded the first and returned the second.
C21_Witness ==
  \E k \in Fetched :
    /\ th[k].kind = "corpus" /\ th[k].excludeProjectId # Null
    /\ Len(projects) = 2 /\ projects[1].id = th[k].excludeProjectId
    /\ Len(th[k].ret) = 1 /\ th[k].ret[1].project = projects[2]

\* The text of a field as a template literal prints it.
Printed(x) == IF x = JsNull THEN <<"n", "u", "l", "l">> ELSE x

\* The larger of the title score and the combined-text score of a record.
QuickScore(t, r) ==
  LET titleScore == quickSimilarityCheck(t.title, r.title)
      textScore ==
        quickSimilarityCheck(
          toLowerCase(t.title \o <<" ">> \o t.abstract),
          toLowerCase(Printed(r.title) \o <<" ">> \o Printed(r.abstract)))
  IN  IF Below(titleScore, textScore) THEN textScore ELSE titleScore

Emptied(rows) ==
  [x \in DOMAIN rows |->
     [rows[x] EXCEPT !.abstract = IF @ = JsNull THEN <<>> ELSE @]]

\* The ids and similarities of a result list.
Scores(results) ==
  [x \in DOMAIN results |-> <<results[x].project.id, results[x].similarity>>]

\* C23: a record whose abstract is null scores in quickDuplicateCheck as the
\* same record with the empty abstract does.
C23_NullAsEmpty ==
  \A k \in Fetched : th[k].kind = "quick" =>
    Scores(th[k].ret) =
      Scores(SortDesc(QuickLoop(th[k].title, th[k].abstract,
                                Emptied(Others(th[k])))))

\* The calls of findDuplicates, running, returned or aborted.
Scans == {k \in Threads : th[k].kind = "batch"}

\* C24: a findDuplicates call on N documents calls the embedding provider
\* at most N times, once per document and in order; no comparison is made
\* (none reported, none kept) before all N embeddings are there; a call that
\* returns made exactly N embedding calls and N(N-1)/2 comparisons on them.
C24_EmbedOncePerDocument ==
  \A k \in Scans :
    LET t == th[k]
        n == Len(t.papers)
    IN  /\ t.embedCalls <= n /\ Len(t.embeddings) <= t.embedCalls
        /\ t.embedCalls <= Len(t.embeddings) + 1
        /\ (Len(t.progress) > Len(t.embeddings) \/ t.duplicates # <<>>) =>
             (t.embedCalls = n /\ Len(t.embeddings) = n)
        /\ k \in Scanned =>
             /\ t.embedCalls = n /\ Len(t.embeddings) = n
             /\ 2 * (Len(t.progress) - n) = n * (n - 1)

\* A scan of three documents returned after three embedding calls and three
\* comparisons.
C24_Witness ==
  \E k \in Scanned : /\ Len(th[k].papers) = 3 /\ th[k].embedCalls = 3
                       /\ Len(th[k].progress) = 6

\* C27: every onProgress(current, total) call of a scan has
\* 1 <= current <= total.
C27_ProgressInRange ==
  \A k \in Scans : \A x \in DOMAIN th[k].progress :
    1 <= th[k].progress[x][1] /\ th[k].progress[x][1] <= th[k].progress[x][2]

\* C25: the debounce.  At most one timer is pending; a pending timer holds
\* the form's present title and abstract, so that no superseded input is
\* left to start a check; and a check starts only when a pending timer
\* fires, with the form's present title and abstract, leaving none pending.
C25_Debounce ==
  /\ [](/\ Cardinality(checkTimeoutRef.timers) <= 1
        /\ \A x \in checkTimeoutRef.timers :
             /\ x.id = checkTimeoutRef.current
             /\ x.title = form.title /\ x.abstract = form.abstract)
  /\ [][\A k \in Threads :
          (th[k].kind = "none" /\ th'[k].kind = "check") =>
            /\ checkTimeoutRef.timers # {} /\ checkTimeoutRef'.timers = {}
            /\ th'[k].title = form.title /\ th'[k].abstract = form.abstract
            /\ form' = form]_vars

\* Two inputs were made, the second before the first one's timer fired: one
\* check started, with the title and the abstract of the second input.
C25_Witness ==
  /\ form.title # <<>> /\ form.abstract # <<>>
  /\ checkTimeoutRef.timers = {} /\ checkTimeoutRef.current = 2
  /\ Cardinality(Checks) = 1
  /\ \A k \in Checks : th[k].title = form.title /\ th[k].abstract = form.abstract

\* C28: isDuplicateChecking is true whenever a checkDuplicates invocation
\* is in flight, and false only when none is.
C28_CheckingWhileInFlight ==
  (\E k \in Checks : th[k].pc # "done") => isDuplicateChecking

\* C29: after a single check, 'completed with no duplicates' is shown only
\* if the store query succeeded and no embedding failed.
C29_CleanOnlyAfterSuccess ==
  \A k \in FullChecks :
    (/\ Cardinality(Checks) = 1 /\ th[k].pc = "done"
     /\ duplicateCheckCompleted /\ duplicates = <<>>) =>
      (~th[k].error /\ ~th[k].embedFailed)

\* C26: an invocation of checkDuplicates that set isDuplicateChecking to
\* true, or of handleAnalyze that set isAnalyzing to true, eventually sets
\* it back to false, whether its awaited calls return or throw, provided
\* each of them settles.
C26_FlagCleared ==
  \A k \in Threads : (th[k].flag = <<TRUE>>) ~> (th[k].flag = <<FALSE>>)

\* A check and an analysis whose embedding calls threw have both ended and
\* cleared their flags.
C26_Witness ==
  /\ \E k \in Checks : /\ th[k].embedFailed /\ th[k].pc = "done"
                        /\ th[k].flag = <<FALSE>>
  /\ th[DetectorThread].kind = "analyze" /\ th[DetectorThread].embedFailed
  /\ th[DetectorThread].flag = <<FALSE>>
  /\ ~isDuplicateChecking /\ ~detector.isAnalyzing

\* C30: every update an upload makes goes to the entry of its own file and
\* to no other: no entry was written by another file's upload, and the entry
\* of a file whose upload has settled shows that upload's outcome.
C30_UpdatesHitOwnEntry ==
  /\ \A x \in DOMAIN uploadingFiles :
       uploadingFiles[x].by \subseteq {uploadingFiles[x].file}
  /\ \A f \in DOMAIN uploads, x \in DOMAIN uploadingFiles :
       (uploads[f].pc # "uploading" /\ uploadingFiles[x].file = f) =>
         uploadingFiles[x].status = uploads[f].pc

====
